---- MODULE Spec2Model ----
(***************************************************************************)
(* Model of src/extract/app.py: the Lambda handler that reads the blood    *)
(* result of an uploaded document from Textract's blocks and inserts it    *)
(* into an Airtable table.                                                 *)
(*                                                                         *)
(* A Python str is a sequence of one-character strings, so that find(),    *)
(* "in", slicing, replace() and float() are computed character by          *)
(* character as the interpreter computes them.                             *)
(***************************************************************************)
EXTENDS Integers, Sequences, FiniteSets, TLC

\* ------------------------------------------------------------- bounds

\* Longest text of a value block in the trimming inputs.
MaxLen == 3

\* Longest block sequence in the anchor inputs.
MaxBlocks == 4

\* ------------------------------------------------------ Python strings

\* What str.find() returns when the substring does not occur.
NotFound == -1

\* sub occurs in s at the 0-based offset i.
OccursAt(s, sub, i) ==
    /\ i >= 0
    /\ i + Len(sub) <= Len(s)
    /\ \A k \in 1..Len(sub) : s[i + k] = sub[k]

\* sub in s
Contains(s, sub) == \E i \in 0..Len(s) : OccursAt(s, sub, i)

\* s.find(sub): the lowest offset at which sub occurs, or -1.
Find(s, sub) ==
    IF Contains(s, sub)
    THEN CHOOSE i \in 0..Len(s) :
            /\ OccursAt(s, sub, i)
            /\ \A j \in 0..(i - 1) : ~OccursAt(s, sub, j)
    ELSE NotFound

\* s[0:stop]: a negative stop counts from the end, and both ends are clamped.
Slice(s, stop) ==
    LET raw == IF stop < 0 THEN Len(s) + stop ELSE stop
        end == IF raw < 0 THEN 0 ELSE IF raw > Len(s) THEN Len(s) ELSE raw
    IN  SubSeq(s, 1, end)

\* Mutant: the commas are left in place.
ReplaceComma_None(v) == v

\* v.replace(",", ".")
ReplaceComma(v) == [k \in 1..Len(v) |-> IF v[k] = "," THEN "." ELSE v[k]]

SPACE == <<" ">>

\* ------------------------------------------------------------- floats

DigitChars == <<"0", "1", "2", "3", "4", "5", "6", "7", "8", "9">>

IsDigit(c) == \E d \in 1..10 : DigitChars[d] = c

DigitValue(c) == (CHOOSE d \in 1..10 : DigitChars[d] = c) - 1

RECURSIVE Pow10(_)
Pow10(n) == IF n = 0 THEN 1 ELSE 10 * Pow10(n - 1)

\* The integer a string of digits writes ("" writes 0).
RECURSIVE IntOf(_)
IntOf(ds) ==
    IF ds = <<>> THEN 0
    ELSE 10 * IntOf(SubSeq(ds, 1, Len(ds) - 1)) + DigitValue(ds[Len(ds)])

\* float() ignores leading and trailing whitespace.
RECURSIVE Strip(_)
Strip(s) ==
    IF s = <<>> THEN s
    ELSE IF s[1] = " " THEN Strip(Tail(s))
    ELSE IF s[Len(s)] = " " THEN Strip(SubSeq(s, 1, Len(s) - 1))
    ELSE s

\* A float is kept as the decimal mant / 10^frac with no trailing zero in
\* the fraction, so that equal numbers are equal values.
RECURSIVE Decimal(_, _)
Decimal(mant, frac) ==
    IF frac > 0 /\ mant % 10 = 0 THEN Decimal(mant \div 10, frac - 1)
    ELSE [mant |-> mant, frac |-> frac]

\* float(s) accepts, over the characters of the model, digits with at most
\* one "." and at least one digit, between optional whitespace.
Parseable(s) ==
    LET t == Strip(s)
    IN  /\ \A k \in 1..Len(t) : IsDigit(t[k]) \/ t[k] = "."
        /\ \E k \in 1..Len(t) : IsDigit(t[k])
        /\ Cardinality({k \in 1..Len(t) : t[k] = "."}) <= 1

\* float(s), for a parseable s.
Float(s) ==
    LET t   == Strip(s)
        dot == Find(t, <<".">>)
    IN  Decimal(IntOf(SelectSeq(t, IsDigit)),
                IF dot = NotFound THEN 0 ELSE Len(t) - dot - 1)

\* ----------------------------------------------------- the test catalog

NEU == <<"N", "E", "U">>

NEUP == <<"N", "E", "U", "%">>

BASO == <<"B", "A", "S", "O">>

LYMPHP == <<"L", "Y", "M", "P", "H", "%">>

MONP == <<"M", "O", "N", "%">>

EOSP == <<"E", "O", "S", "%">>

\* The tests whose value is cut at its first space before the unit markers
\* are looked for.
PercentStyle == {BASO, NEUP, LYMPHP, MONP, EOSP}

\* The unit markers, in the order the loop tries them.
Markers == << <<"^">>, <<"/">>, <<"%">>, <<"f", "l">>, <<"p", "g">> >>

\* The tests a catalog of the model is made of: a plain test and a
\* percent-style test, the plain test's name being part of the other's.
Tests == {NEU, NEUP}

SeqsUpTo(S, n) == UNION {[1..k -> S] : k \in 0..n}

IsInjective(c) == \A a, b \in 1..Len(c) : c[a] = c[b] => a = b

\* blood_test.morphology: an ordered catalog of distinct tests.
Catalogs == {c \in SeqsUpTo(Tests, Cardinality(Tests)) : IsInjective(c)}

\* ------------------------------------------------------------- blocks

\* A Textract block that carries a "Text" key, and one that does not.
Block(text) == [HasText |-> TRUE, Text |-> text]

NoText == [HasText |-> FALSE, Text |-> <<>>]

\* d.get("Text"), as a truth value: the key is there and the text not empty.
GetText(d) == d.HasText /\ d.Text # <<>>

\* What next() returns when no block matches.
None == -1

\* next((index for (index, d) in enumerate(Blocks) if d.get("Text") and
\* test in d.get("Text")), None), scanning from the 0-based index i.
RECURSIVE ScanFrom(_, _, _)
ScanFrom(blks, test, i) ==
    IF i >= Len(blks) THEN None
    ELSE IF GetText(blks[i + 1]) /\ Contains(blks[i + 1].Text, test) THEN i
    ELSE ScanFrom(blks, test, i + 1)

\* Mutant: the last matching block instead of the first.
RECURSIVE ScanBack(_, _, _)
ScanBack(blks, test, i) ==
    IF i < 0 THEN None
    ELSE IF GetText(blks[i + 1]) /\ Contains(blks[i + 1].Text, test) THEN i
    ELSE ScanBack(blks, test, i - 1)

AnchorIndex_Last(blks, test) == ScanBack(blks, test, Len(blks) - 1)

AnchorIndex(blks, test) == ScanFrom(blks, test, 0)

\* The first trim: a percent-style test's value is cut at its first space.
TrimPercent(test, next_block) ==
    IF test \in PercentStyle /\ Find(next_block, SPACE) # NotFound
    THEN Slice(next_block, Find(next_block, SPACE))
    ELSE next_block

\* The second trim: the first marker found in the value cuts it at
\* find(" "), and the loop breaks.
RECURSIVE TrimUnitsFrom(_, _)
TrimUnitsFrom(next_block, m) ==
    IF m > Len(Markers) THEN next_block
    ELSE IF Contains(next_block, Markers[m])
         THEN Slice(next_block, Find(next_block, SPACE))
         ELSE TrimUnitsFrom(next_block, m + 1)

\* Mutant: the cut is made whether or not a marker is found.
TrimUnits_Unconditional(next_block) ==
    Slice(next_block, Find(next_block, SPACE))

\* Mutant: the cut is made at a space whether or not a marker is found.
TrimUnits_AnySpace(next_block) ==
    IF Find(next_block, SPACE) # NotFound
    THEN Slice(next_block, Find(next_block, SPACE))
    ELSE TrimUnitsFrom(next_block, 1)

TrimUnits(next_block) == TrimUnitsFrom(next_block, 1)

\* The value stored for a test whose value block holds next_block.
TrimValue(test, next_block) == TrimUnits(TrimPercent(test, next_block))

\* Mutant: next() defaults to -1 instead of None, so that a missing test
\* reads the first block.
ParseTest_DefaultIndex(blks, test) ==
    LET found == AnchorIndex(blks, test)
        index == IF found = None THEN -1 ELSE found
    IN  IF index + 1 >= Len(blks)
        THEN [raised |-> "IndexError", value |-> <<>>]
        ELSE IF ~blks[index + 2].HasText
        THEN [raised |-> "KeyError", value |-> <<>>]
        ELSE [raised |-> "", value |-> TrimValue(test, blks[index + 2].Text)]

\* One iteration of the loop over morphology: the exception it raises, or
\* the value it stores.
ParseTest(blks, test) ==
    LET index == AnchorIndex(blks, test)
    IN  IF index = None
        THEN [raised |-> "TypeError", value |-> <<>>]
        ELSE IF index + 1 >= Len(blks)
        THEN [raised |-> "IndexError", value |-> <<>>]
        ELSE IF ~blks[index + 2].HasText
        THEN [raised |-> "KeyError", value |-> <<>>]
        ELSE [raised |-> "", value |-> TrimValue(test, blks[index + 2].Text)]

\* ------------------------------------------------------ Python values

\* A value of blood_result: a str before the conversion, a float after it.
PyStr(s) == [str |-> s, num |-> <<>>]

PyFloat(d) == [str |-> <<>>, num |-> <<d.mant, d.frac>>]

IsPyFloat(v) == v.num # <<>>

\* An empty dict.
EmptyDict == [k \in {} |-> PyStr(<<>>)]

\* d[key] = value
DictSet(d, key, value) ==
    [k \in DOMAIN d \cup {key} |-> IF k = key THEN value ELSE d[k]]

\* ------------------------------------------------------------- inputs

\* The characters of a value block: two digits, the two decimal separators,
\* the space, and the characters of the five unit markers.
ValueChars == {"4", "5", ",", ".", " ", "^", "/", "%", "f", "l", "p", "g"}

ValueTexts == SeqsUpTo(ValueChars, MaxLen)

\* A test's block followed by any value block.
TrimInputs ==
    {[catalog |-> <<t>>, blocks |-> <<Block(t), Block(v)>>] :
        t \in Tests, v \in ValueTexts}

\* The blocks the anchor inputs are made of.
AnchorPool ==
    {NoText, Block(NEU), Block(NEUP),
     Block(<<"4", ",", "5">>), Block(<<"4", ".", "5">>),
     Block(<<"5", " ", "%">>)}

AnchorInputs ==
    {[catalog |-> c, blocks |-> b] :
        c \in Catalogs, b \in SeqsUpTo(AnchorPool, MaxBlocks)}

\* -------------------------------------------------------- the payload

\* The key of the date field.
DATE == <<"d", "a", "t", "e">>

\* The days datetime.datetime.now() may fall on.
Dates == {[year |-> 2024, month |-> 1, day |-> 1],
          [year |-> 2024, month |-> 12, day |-> 31]}

\* The decimal digits of n, zero-padded to the given width.
RECURSIVE Padded(_, _)
Padded(n, width) ==
    IF width = 0 THEN <<>>
    ELSE Append(Padded(n \div 10, width - 1), DigitChars[(n % 10) + 1])

\* current_date.strftime("%Y-%m-%d")
Strftime(d) ==
    Padded(d.year, 4) \o <<"-">> \o Padded(d.month, 2) \o <<"-">>
        \o Padded(d.day, 2)

\* The position in the catalog of the first value float() rejects, or
\* Len(catalog) + 1 when it accepts them all.
RECURSIVE FirstUnparseable(_, _, _)
FirstUnparseable(catalog, result, k) ==
    IF k > Len(catalog) THEN k
    ELSE IF Parseable(ReplaceComma(result[catalog[k]].str))
         THEN FirstUnparseable(catalog, result, k + 1)
         ELSE k

\* blood_result after the conversion loop has run over the first n keys, in
\* the order the keys were inserted.
Converted(catalog, result, n) ==
    [t \in DOMAIN result |->
        IF \E k \in 1..n : catalog[k] = t
        THEN PyFloat(Float(ReplaceComma(result[t].str)))
        ELSE result[t]]

\* fields = {"date": formatted_date}; fields.update(blood_result)
Fields(formatted_date, result) ==
    [k \in {DATE} \cup DOMAIN result |->
        IF k \in DOMAIN result THEN result[k] ELSE PyStr(formatted_date)]

\* payload = {"records": [{"fields": fields}]}
Payload(fields) == [records |-> << [fields |-> fields] >>]

NoPayload == [records |-> <<>>]

\* What requests.post() may do: the table creates the records, the service
\* answers with an error status (requests returns that response like any
\* other), or the call raises.
PostOutcomes == {"created", "rejected", "raised"}

\* -------------------------------------------------------------- state

\* Two invocations of lambda_handler, for the same uploaded document.
Invocations == {1, 2}

VARIABLES
    morphology,      \* the test catalog
    document,        \* the blocks Textract finds in the uploaded document
    pc,              \* each invocation's position in lambda_handler
    extracted_text,  \* each invocation's Textract response
    cursor,          \* the number of tests the loop over morphology has done
    blood_result,    \* each invocation's blood_result dict
    returned,        \* what parse_extracted_text returned to each invocation
    error,           \* the exception that ended each invocation, or ""
    payload,         \* each invocation's payload
    response,        \* how each invocation's requests.post ended, or ""
    log,             \* each invocation's calls and log lines, in order
    store            \* the rows of the Airtable table, in creation order

vars == <<morphology, document, pc, extracted_text, cursor, blood_result,
          returned, error, payload, response, log, store>>

NoResponse == [Blocks |-> <<>>]

\* The state in which the invocations of `running` are at `at`, and the
\* others never start.
InitWith(inputs, running, at) ==
    /\ \E in \in inputs :
        /\ morphology = in.catalog
        /\ document = in.blocks
        /\ extracted_text =
             [i \in Invocations |->
                IF i \in running /\ at = "parse"
                THEN [Blocks |-> in.blocks] ELSE NoResponse]
    /\ pc = [i \in Invocations |-> IF i \in running THEN at ELSE "idle"]
    /\ cursor = [i \in Invocations |-> 0]
    /\ blood_result = [i \in Invocations |-> EmptyDict]
    /\ returned = [i \in Invocations |-> EmptyDict]
    /\ error = [i \in Invocations |-> ""]
    /\ payload = [i \in Invocations |-> NoPayload]
    /\ response = [i \in Invocations |-> ""]
    /\ log = [i \in Invocations |-> <<>>]
    /\ store = <<>>

\* The exception e leaves lambda_handler.
Raise(i, e) ==
    /\ pc' = [pc EXCEPT ![i] = "aborted"]
    /\ error' = [error EXCEPT ![i] = e]

Logged(i, events) == log' = [log EXCEPT ![i] = log[i] \o events]

\* Mutant: the S3 client's exception is printed and not raised again.
GetVersion_Swallowed(i) ==
    /\ pc[i] = "start"
    /\ \/ /\ Logged(i, <<"get_object_attributes">>)
          /\ UNCHANGED error
       \/ /\ error' = [error EXCEPT ![i] = "ClientError"]
          /\ Logged(i, <<"get_object_attributes", "print_error">>)
    /\ pc' = [pc EXCEPT ![i] = "versioned"]
    /\ UNCHANGED <<morphology, document, extracted_text, cursor,
                   blood_result, returned, payload, response, store>>

\* get_version: the version of the object, or the S3 client's exception,
\* printed and raised again.
GetVersion(i) ==
    /\ pc[i] = "start"
    /\ \/ /\ pc' = [pc EXCEPT ![i] = "versioned"]
          /\ Logged(i, <<"get_object_attributes">>)
          /\ UNCHANGED error
       \/ /\ Raise(i, "ClientError")
          /\ Logged(i, <<"get_object_attributes", "print_error">>)
    /\ UNCHANGED <<morphology, document, extracted_text, cursor,
                   blood_result, returned, payload, response, store>>

\* prepare_document and extract_text: Textract's response, or its
\* exception, printed and raised again.
ExtractText(i) ==
    /\ pc[i] = "versioned"
    /\ \/ /\ pc' = [pc EXCEPT ![i] = "parse"]
          /\ extracted_text' = [extracted_text EXCEPT ![i] = [Blocks |-> document]]
          /\ Logged(i, <<"analyze_document">>)
          /\ UNCHANGED error
       \/ /\ Raise(i, "ClientError")
          /\ Logged(i, <<"analyze_document", "print_error">>)
          /\ UNCHANGED extracted_text
    /\ UNCHANGED <<morphology, document, cursor, blood_result, returned,
                   payload, response, store>>

\* One iteration of the loop of parse_extracted_text.
ParseStep(i) ==
    /\ pc[i] = "parse"
    /\ cursor[i] < Len(morphology)
    /\ LET test == morphology[cursor[i] + 1]
           got  == ParseTest(extracted_text[i].Blocks, test)
       IN  \/ /\ got.raised = ""
              /\ blood_result' =
                   [blood_result EXCEPT
                      ![i] = DictSet(blood_result[i], test, PyStr(got.value))]
              /\ cursor' = [cursor EXCEPT ![i] = cursor[i] + 1]
              /\ UNCHANGED <<pc, error>>
           \/ /\ got.raised # ""
              /\ Raise(i, got.raised)
              /\ UNCHANGED <<blood_result, cursor>>
    /\ UNCHANGED <<morphology, document, extracted_text, returned, payload,
                   response, log, store>>

\* return blood_result
ParseReturn(i) ==
    /\ pc[i] = "parse"
    /\ cursor[i] >= Len(morphology)
    /\ pc' = [pc EXCEPT ![i] = "parsed"]
    /\ returned' = [returned EXCEPT ![i] = blood_result[i]]
    /\ Logged(i, <<"parse_extracted_text">>)
    /\ UNCHANGED <<morphology, document, extracted_text, cursor,
                   blood_result, error, payload, response, store>>

\* insert_to_airtable up to the payload: the conversion loop, which stops
\* at the first value float() rejects, and the payload with today's date.
PreparePayload(i) ==
    /\ pc[i] = "parsed"
    /\ LET bad == FirstUnparseable(morphology, blood_result[i], 1)
       IN  \/ /\ bad > Len(morphology)
              /\ \E today \in Dates :
                   LET floats == Converted(morphology, blood_result[i],
                                           Len(morphology))
                   IN  /\ blood_result' = [blood_result EXCEPT ![i] = floats]
                       /\ payload' =
                            [payload EXCEPT
                               ![i] = Payload(Fields(Strftime(today), floats))]
              /\ pc' = [pc EXCEPT ![i] = "prepared"]
              /\ Logged(i, <<"float">>)
              /\ UNCHANGED error
           \/ /\ bad <= Len(morphology)
              /\ blood_result' =
                   [blood_result EXCEPT
                      ![i] = Converted(morphology, blood_result[i], bad - 1)]
              /\ Raise(i, "ValueError")
              /\ UNCHANGED <<payload, log>>
    /\ UNCHANGED <<morphology, document, extracted_text, cursor, returned,
                   response, store>>

\* Mutant: a record equal to a row of the table creates no row.
RECURSIVE Created_Once(_, _)
Created_Once(rows, records) ==
    IF records = <<>> THEN rows
    ELSE IF \E a \in 1..Len(rows) : rows[a] = Head(records).fields
         THEN Created_Once(rows, Tail(records))
         ELSE Created_Once(Append(rows, Head(records).fields), Tail(records))

\* The rows the table holds after it has created the records of a body.
RECURSIVE Created(_, _)
Created(rows, records) ==
    IF records = <<>> THEN rows
    ELSE Created(Append(rows, Head(records).fields), Tail(records))

\* requests.post and what follows it in insert_to_airtable.
Post(i) ==
    /\ pc[i] = "prepared"
    /\ \E outcome \in PostOutcomes :
        /\ response' = [response EXCEPT ![i] = outcome]
        /\ \/ /\ outcome = "created"
              /\ store' = Created(store, payload[i].records)
              /\ pc' = [pc EXCEPT ![i] = "inserted"]
              /\ Logged(i, <<"post", "log_success">>)
              /\ UNCHANGED error
           \/ /\ outcome = "rejected"
              /\ pc' = [pc EXCEPT ![i] = "inserted"]
              /\ Logged(i, <<"post", "log_success">>)
              /\ UNCHANGED <<store, error>>
           \/ /\ outcome = "raised"
              /\ Raise(i, "RequestException")
              /\ Logged(i, <<"post", "print_error">>)
              /\ UNCHANGED store
    /\ UNCHANGED <<morphology, document, extracted_text, cursor,
                   blood_result, returned, payload>>

\* The status-200 response, built and logged.
Respond(i) ==
    /\ pc[i] = "inserted"
    /\ pc' = [pc EXCEPT ![i] = "done"]
    /\ Logged(i, <<"log_response">>)
    /\ UNCHANGED <<morphology, document, extracted_text, cursor,
                   blood_result, returned, error, payload, response, store>>

Handle(i) ==
    \/ GetVersion(i)
    \/ ExtractText(i)
    \/ ParseStep(i)
    \/ ParseReturn(i)
    \/ PreparePayload(i)
    \/ Post(i)
    \/ Respond(i)

\* One invocation of lambda_handler.
Init == InitWith(AnchorInputs \cup TrimInputs, {1}, "start")

Next == Handle(1)

Spec == Init /\ [][Next]_vars

\* parse_extracted_text alone, on its inputs.
InitParse == InitWith(AnchorInputs \cup TrimInputs, {1}, "parse")

NextParse == ParseStep(1) \/ ParseReturn(1)

SpecParse == InitParse /\ [][NextParse]_vars

\* Two invocations for the same upload, in any interleaving.
UploadInputs ==
    {in \in AnchorInputs : Len(in.catalog) <= 1 /\ Len(in.blocks) <= 2}

InitTwo == InitWith(UploadInputs, Invocations, "start")

NextTwo == \E i \in Invocations : Handle(i)

SpecTwo == InitTwo /\ [][NextTwo]_vars

\* ============================================================ claims
\* The words of the claims, stated over sets and positions rather than by
\* the scans and slices of the code.

Range(c) == {c[k] : k \in 1..Len(c)}

\* s is a prefix of t.
IsPrefix(s, t) == Len(s) <= Len(t) /\ SubSeq(t, 1, Len(s)) = s

HasSpace(s) == \E k \in 1..Len(s) : s[k] = " "

\* The text before the first space of a text that has one.
BeforeFirstSpace(s) ==
    LET k == CHOOSE k \in 1..Len(s) :
                s[k] = " " /\ \A j \in 1..(k - 1) : s[j] # " "
    IN  SubSeq(s, 1, k - 1)

\* t is a substring of s.
Includes(s, t) ==
    \E k \in 1..(Len(s) - Len(t) + 1) : SubSeq(s, k, k + Len(t) - 1) = t

UnitMarkers == {<<"^">>, <<"/">>, <<"%">>, <<"f", "l">>, <<"p", "g">>}

HasMarker(s) == \E m \in UnitMarkers : Includes(s, m)

\* Digits with an optional "." or "," separator: no space, no unit marker.
IsClean(s) ==
    /\ \A k \in 1..Len(s) : IsDigit(s[k]) \/ s[k] \in {".", ","}
    /\ \E k \in 1..Len(s) : IsDigit(s[k])
    /\ Cardinality({k \in 1..Len(s) : s[k] \in {".", ","}}) <= 1

\* The positions (from 1) of the blocks whose text is present, non-empty
\* and contains t.
Anchors(blks, t) ==
    {j \in 1..Len(blks) :
        blks[j].HasText /\ blks[j].Text # <<>> /\ Includes(blks[j].Text, t)}

HasAnchor(blks, t) == Anchors(blks, t) # {}

\* anchor(t): the lowest of them.
Anchor(blks, t) ==
    CHOOSE j \in Anchors(blks, t) : \A k \in Anchors(blks, t) : j <= k

\* t's anchor is followed by a block that carries a text.
HasValueBlock(blks, t) ==
    /\ HasAnchor(blks, t)
    /\ Anchor(blks, t) < Len(blks)
    /\ blks[Anchor(blks, t) + 1].HasText

ValueText(blks, t) == blks[Anchor(blks, t) + 1].Text

\* The blocks invocation 1 extracts from, and the strings it has stored:
\* blood_result while the loop runs, the returned mapping afterwards.
B == extracted_text[1].Blocks

Stored == IF pc[1] = "parse" THEN blood_result[1] ELSE returned[1]

Returned == pc[1] \notin {"idle", "start", "versioned", "parse", "aborted"}
            \/ (pc[1] = "aborted" /\ error[1] \in {"ValueError", "RequestException"})

\* ---- C1

\* Every test of the catalog has a block equal to it that is immediately
\* followed by a clean numeric block.
C1_EqualBlocks ==
    \A t \in Range(morphology) :
        \E j \in 1..(Len(B) - 1) :
            B[j] = Block(t) /\ B[j + 1].HasText /\ IsClean(B[j + 1].Text)

\* C1 as stated: with such blocks the extraction returns, its keys are the
\* catalog, and every test maps to the text after a block equal to it.
C1_Original ==
    C1_EqualBlocks =>
        /\ ~(pc[1] = "aborted" /\ error[1] \in {"TypeError", "IndexError", "KeyError"})
        /\ Returned =>
             /\ DOMAIN returned[1] = Range(morphology)
             /\ \A t \in Range(morphology) :
                  \E j \in 1..(Len(B) - 1) :
                      /\ B[j] = Block(t)
                      /\ B[j + 1].HasText
                      /\ returned[1][t] = PyStr(B[j + 1].Text)

\* For every test of the catalog the first block that contains it is equal
\* to it and is immediately followed by a clean numeric block.
C1_FirstBlocks ==
    \A t \in Range(morphology) :
        /\ HasValueBlock(B, t)
        /\ B[Anchor(B, t)].Text = t
        /\ IsClean(ValueText(B, t))

\* C1, amended: when for every test of the catalog the FIRST block whose
\* text contains the test is equal to it and is immediately followed by a
\* clean numeric block, parse_extracted_text returns a mapping whose keys
\* are exactly the catalog, every test mapped to that following block's
\* text unchanged.
C1_Amended ==
    C1_FirstBlocks =>
        /\ ~(pc[1] = "aborted" /\ error[1] \in {"TypeError", "IndexError", "KeyError"})
        /\ Returned =>
             /\ DOMAIN returned[1] = Range(morphology)
             /\ \A t \in Range(morphology) :
                  returned[1][t] = PyStr(ValueText(B, t))

\* Both tests of a two-test catalog extracted from clean blocks.
C1_Witness ==
    /\ pc[1] = "parsed"
    /\ Len(morphology) = 2
    /\ C1_FirstBlocks
    /\ \E t \in DOMAIN returned[1] : Includes(returned[1][t].str, <<",">>)

\* ---- C2

\* C2: whatever the test, a value block without a space is stored
\* unmodified, unit markers included.
C2_NoSpaceUnchanged ==
    \A t \in DOMAIN Stored :
        ~HasSpace(ValueText(B, t)) => Stored[t] = PyStr(ValueText(B, t))

\* ---- C4

\* C4: a percent-style test whose value block has a space is stored as the
\* text before the first space.
C4_PercentCut ==
    \A t \in DOMAIN Stored :
        (t \in PercentStyle /\ HasSpace(ValueText(B, t))) =>
            Stored[t] = PyStr(BeforeFirstSpace(ValueText(B, t)))

\* ---- C9

\* C9: for a test outside the percent-style subset, a value with a unit
\* marker and a space is stored as the text before its first space, and a
\* value with no unit marker is stored unchanged, spaces included.
C9_UnitSuffixTrim ==
    \A t \in DOMAIN Stored :
        t \notin PercentStyle =>
            LET text == ValueText(B, t)
            IN  /\ (HasMarker(text) /\ HasSpace(text)) =>
                      Stored[t] = PyStr(BeforeFirstSpace(text))
                /\ ~HasMarker(text) => Stored[t] = PyStr(text)

\* A plain test whose value "5 %" has its marker after the space: the cut
\* is at the space.
C9_Witness ==
    /\ pc[1] = "parsed"
    /\ NEU \in DOMAIN returned[1]
    /\ ValueText(B, NEU) = <<"5", " ", "%">>
    /\ returned[1][NEU] = PyStr(<<"5">>)

\* ---- C10

\* C10: every stored value is a prefix of the text of the block right
\* after the lowest block that contains the test, and is fixed by the
\* blocks and the test alone: the catalog's order and the other tests'
\* anchors play no part.
C10_PrefixOfValueBlock ==
    \A t \in DOMAIN Stored :
        /\ HasValueBlock(B, t)
        /\ IsPrefix(Stored[t].str, ValueText(B, t))
        /\ Stored[t] =
             PyStr(IF t \in PercentStyle /\ HasSpace(ValueText(B, t))
                   THEN LET cut == BeforeFirstSpace(ValueText(B, t))
                        IN  IF HasMarker(cut)
                            THEN SubSeq(cut, 1, Len(cut) - 1) ELSE cut
                   ELSE LET text == ValueText(B, t)
                        IN  IF ~HasMarker(text) THEN text
                            ELSE IF HasSpace(text) THEN BeforeFirstSpace(text)
                            ELSE SubSeq(text, 1, Len(text) - 1))

\* The percent-style test is extracted before the plain one, whose anchor
\* is the earlier block of the percent-style test.
C10_Witness ==
    /\ pc[1] = "parsed"
    /\ morphology = <<NEUP, NEU>>
    /\ Anchor(B, NEU) = Anchor(B, NEUP)
    /\ returned[1][NEU] = returned[1][NEUP]
    /\ \E j \in 1..(Len(B) - 1) :
          /\ B[j] = Block(NEU)
          /\ B[j + 1].HasText
          /\ PyStr(B[j + 1].Text) # returned[1][NEU]

\* ---- C3

\* Some test of the catalog is contained in no block's text.
MissingTest == \E t \in Range(morphology) : ~HasAnchor(document, t)

\* C3: parse_extracted_text returns the whole catalog or nothing; and when
\* a test of the catalog is in no block's text the loop stops short of the
\* catalog's end, nothing is returned, nothing is posted and the table
\* stays empty.
C3_NoPartialResult ==
    /\ "parse_extracted_text" \in Range(log[1]) =>
          DOMAIN returned[1] = Range(morphology)
    /\ "parse_extracted_text" \notin Range(log[1]) =>
          /\ returned[1] = EmptyDict
          /\ payload[1] = NoPayload
          /\ "post" \notin Range(log[1])
          /\ store = <<>>
    /\ error[1] \in {"TypeError", "IndexError", "KeyError"} =>
          pc[1] = "aborted" /\ "parse_extracted_text" \notin Range(log[1])
    /\ MissingTest =>
          /\ pc[1] \in {"start", "versioned", "parse", "aborted"}
          /\ \A k \in 1..cursor[1] : HasAnchor(document, morphology[k])
          /\ cursor[1] < Len(morphology)
          /\ "parse_extracted_text" \notin Range(log[1])
          /\ store = <<>>

\* The second test of the catalog is missing: the first was stored, and the
\* invocation aborted with nothing returned.
C3_Witness ==
    /\ MissingTest
    /\ pc[1] = "aborted"
    /\ error[1] = "TypeError"
    /\ cursor[1] = 1
    /\ DOMAIN blood_result[1] # {}
    /\ returned[1] = EmptyDict

\* ---- C5

Steps ==
    <<"get_object_attributes", "analyze_document", "parse_extracted_text",
      "float", "post", "log_success", "log_response">>

IsCall(e) == e # "print_error"

\* C5: the calls of an invocation are a prefix of version lookup, analysis,
\* extraction, conversion, POST (so the POST comes at most once and after
\* the four others); at the POST every test of the catalog holds a float;
\* and an exception of an earlier step ends the invocation with that
\* exception and without a POST.
C5_StepOrder ==
    /\ IsPrefix(SelectSeq(log[1], IsCall), Steps)
    /\ "post" \in Range(log[1]) =>
          /\ DOMAIN blood_result[1] = Range(morphology)
          /\ \A t \in Range(morphology) : IsPyFloat(blood_result[1][t])
    /\ (pc[1] = "aborted") <=> (error[1] # "")
    /\ error[1] \notin {"", "RequestException"} =>
          "post" \notin Range(log[1]) /\ response[1] = "" /\ store = <<>>

\* An invocation that went through every step.
C5_Witness ==
    /\ pc[1] = "done"
    /\ log[1] = Steps
    /\ Len(morphology) = 2
    /\ Len(store) = 1

\* ---- C6

\* C6: when the POST fails, it was attempted once, the failure was printed
\* and raised, and neither the success message nor the response is logged.
C6_FailureAborts ==
    (morphology # <<>> /\ response[1] \in {"rejected", "raised"}) =>
        /\ pc[1] = "aborted"
        /\ error[1] = "RequestException"
        /\ Cardinality({k \in 1..Len(log[1]) : log[1][k] = "post"}) = 1
        /\ "print_error" \in Range(log[1])
        /\ "log_success" \notin Range(log[1])
        /\ "log_response" \notin Range(log[1])

\* ---- C7

WithPeriods(s) == [k \in 1..Len(s) |-> IF s[k] = "," THEN "." ELSE s[k]]

IsNotSpace(c) == c # " "

\* The decimal num = <<mant, frac>>, that is mant / 10^frac, is the number
\* the text writes: its digits before the period, then those after it.
Denotes(s, num) ==
    LET t     == SelectSeq(s, IsNotSpace)
        dots  == {k \in 1..Len(t) : t[k] = "."}
        dot   == IF dots = {} THEN Len(t) + 1 ELSE CHOOSE k \in dots : TRUE
        whole == SubSeq(t, 1, dot - 1)
        part  == SubSeq(t, dot + 1, Len(t))
    IN  /\ Len(num) = 2
        /\ num[1] * Pow10(Len(part)) =
             (IntOf(whole) * Pow10(Len(part)) + IntOf(part)) * Pow10(num[2])

DateTexts ==
    {<<"2", "0", "2", "4", "-", "0", "1", "-", "0", "1">>,
     <<"2", "0", "2", "4", "-", "1", "2", "-", "3", "1">>}

PayloadBuilt ==
    \/ pc[1] \in {"prepared", "inserted", "done"}
    \/ pc[1] = "aborted" /\ error[1] = "RequestException"

\* C7: when every extracted value is parseable once its commas are periods,
\* the conversion does not fail, and the body holds one record whose fields
\* are the date, as YYYY-MM-DD, and one float per key of the extraction
\* result: the number its string writes with commas read as periods. The
\* row the table creates is that record.
C7_RecordOfFloats ==
    /\ (pc[1] = "aborted" /\ error[1] = "ValueError") =>
          \E k \in DOMAIN returned[1] :
              ~Parseable(WithPeriods(returned[1][k].str))
    /\ PayloadBuilt =>
          /\ Len(payload[1].records) = 1
          /\ LET fields == payload[1].records[1].fields
             IN  /\ DOMAIN fields = {DATE} \cup DOMAIN returned[1]
                 /\ fields[DATE].num = <<>>
                 /\ fields[DATE].str \in DateTexts
                 /\ \A k \in DOMAIN returned[1] :
                       /\ fields[k].str = <<>>
                       /\ Denotes(WithPeriods(returned[1][k].str), fields[k].num)
                 /\ response[1] = "created" => store = <<fields>>
                 /\ response[1] # "created" => store = <<>>

\* "4,5" and "4.5" were both submitted as 4.5.
C7_Witness ==
    /\ pc[1] = "done"
    /\ response[1] = "created"
    /\ returned[1] = (NEU :> PyStr(<<"4", ",", "5">>)) @@ (NEUP :> PyStr(<<"4", ".", "5">>))
    /\ store[1][NEU].num = <<45, 1>>
    /\ store[1][NEUP].num = <<45, 1>>

\* ---- C8

\* C8 as stated: two invocations for the same upload leave the table with
\* what one invocation leaves.
C8_Idempotent ==
    (/\ morphology # <<>>
     /\ \A i \in Invocations : pc[i] = "done" /\ response[i] = "created") =>
        Len(store) = 1

\* C8, amended: the pipeline is not idempotent per upload. Every invocation
\* whose POST the table accepts adds one row, so two invocations for the
\* same upload leave two rows; the rows have the same fields and the same
\* test values, and differ at most in the date.
C8_OneRowPerAcceptedPost ==
    /\ Len(store) = Cardinality({i \in Invocations : response[i] = "created"})
    /\ \A i \in Invocations :
          response[i] = "created" =>
              \E a \in 1..Len(store) : store[a] = payload[i].records[1].fields
    /\ \A a, b \in 1..Len(store) :
          /\ DOMAIN store[a] = DOMAIN store[b]
          /\ \A k \in DOMAIN store[a] \ {DATE} : store[a][k] = store[b][k]

\* Two invocations on the same day left two identical rows.
C8_Witness ==
    /\ \A i \in Invocations : pc[i] = "done"
    /\ Len(store) = 2
    /\ store[1] = store[2]
    /\ DOMAIN store[1] # {DATE}

====
